---- MODULE Spec2Model ----
(***************************************************************************)
(* Payment and refund orchestration of the e-learning payment service.     *)
(*                                                                         *)
(* The repository carries two copies of services/paymentService.js:        *)
(*   "A" : unnamed/part_012 lines 652-1323 (timers for the side effects,   *)
(*         cache invalidation, awaited earnings aggregate)                 *)
(*   "B" : src/services/paymentService.js (side effects awaited inline)    *)
(* The variable build says which copy the process has loaded.              *)
(*                                                                         *)
(* Money: amounts are in cents; platformCommission and educatorEarnings    *)
(* are in half-cents (1/200 of a currency unit), over the denominator      *)
(* ratioDen of the row (1 for payments, the original amount for refunds).  *)
(***************************************************************************)
EXTENDS Integers, Sequences, FiniteSets, TLC

\* ---------------------------------------------------------------- bounds
MaxReq == 2
MaxClock == 1
\* statistics calls per run
MaxStat == 2
\* the commission calculator is tried on every amount from 0.01 to
\* MaxLowCents / 100
MaxLowCents == 200

Reqs == 1..MaxReq
Builds == {"A", "B"}
\* request bodies of POST /payments: (user, course, educator, amount)
PaymentInputs == {<<"u1", "c1", "e1", 9900>>, <<"u1", "c1", "e2", 9900>>,
                  <<"u1", "c2", "e1", 9900>>}
\* the same with a second pair that is not enrolled
WidePaymentInputs == PaymentInputs \cup {<<"u2", "c1", "e1", 9900>>}
\* the optional amount of POST /payments/refund; 0 stands for absent
RefundAmountInputs == {0, 5000}
\* the same with an amount above the amount of every payment
WideRefundAmountInputs == RefundAmountInputs \cup {15000}

\* inputs of calculatePlatformCommission, in cents, one set per tier:
\* below 200.00, from 200.00 to below 500.00, from 500.00
LowAmounts == (1..MaxLowCents) \cup {700, 1200, 9900, 19999}
MidAmounts == {20000, 20001, 25000, 35000, 49999}
HighAmounts == {50000, 50001, 60000, 70000}

Stats == 1..MaxStat

\* ------------------------------------------------------ program constants
PLATFORM_COMMISSION_PERCENTAGE == 20
InvoiceNumberModulus == 100000000

\* educators that have a stripeAccount row (the table is not written by
\* the payment or refund paths)
StripeAccounts == {"e1"}

VARIABLES build, now, ledger, invoices, req, timers,
          chargeCalls, refundsIssued, reversals, notified, auditLog,
          invalidated,
          calc,  \* the calls of calculatePlatformCommission under test
          stat,  \* the calls of the statistics service
          http   \* the request to a statistics endpoint and its response

vars == <<build, now, ledger, invoices, req, timers,
          chargeCalls, refundsIssued, reversals, notified, auditLog,
          invalidated, calc, stat, http>>

\* ------------------------------------------------------------- arithmetic
\* Math.round of the rational n/d (d > 0): floor(n/d + 1/2)
MathRound(n, d) == (2 * n + d) \div (2 * d)

Min(a, b) == IF a <= b THEN a ELSE b
Max(a, b) == IF a >= b THEN a ELSE b

\* the tier of the commission percentage; amount in cents
commissionPercentage(amount) ==
  IF amount >= 50000 THEN PLATFORM_COMMISSION_PERCENTAGE - 5
  ELSE IF amount >= 20000 THEN PLATFORM_COMMISSION_PERCENTAGE - 2
  ELSE PLATFORM_COMMISSION_PERCENTAGE

\* netAmount = amount - (0.3 + 0.029 * amount), as a numerator over 100000
\* (currency units); amount in cents
netAmountNum(amount) == 971 * amount - 30000

\* amount in cents; result in half-cents
calculatePlatformCommission_noCap(amount) ==
  LET pc == Max(MathRound(netAmountNum(amount) * commissionPercentage(amount),
                          10000000), 1) * 200
      ee == MathRound(netAmountNum(amount) - 500 * pc, 100000) * 200
  IN [platformCommission |-> pc, educatorEarnings |-> ee]

calculatePlatformCommission_noFee(amount) ==
  LET pc == Min(Max(MathRound(amount * commissionPercentage(amount), 10000), 1)
                  * 200,
                amount)
      ee == MathRound(2 * amount - pc, 200) * 200
  IN [platformCommission |-> pc, educatorEarnings |-> ee]

calculatePlatformCommission(amount) ==
  LET pc == Min(Max(MathRound(netAmountNum(amount) * commissionPercentage(amount),
                              10000000), 1) * 200,
                amount)
      ee == MathRound(netAmountNum(amount) - 500 * pc, 100000) * 200
  IN [platformCommission |-> pc, educatorEarnings |-> ee]

\* ----------------------------------------------------------------- ledger
NoReq == [kind |-> "none", pc |-> "idle", userId |-> "", courseId |-> "",
          educatorId |-> "", amount |-> 0, transactionId |-> 0,
          refundAmount |-> 0, duplicateCheck |-> FALSE,
          educatorAccount |-> FALSE, validated |-> FALSE,
          chargeReturned |-> FALSE, chargeStatus |-> "", hasTransfer |-> FALSE,
          committed |-> FALSE, refundTxn |-> 0, failedWrite |-> "none",
          collided |-> FALSE, reversalCalled |-> FALSE, reversalAmount |-> 0,
          error |-> "none"]

TxnIds == 1..Len(ledger)

\* prisma.transaction.findFirst({where: {courseId, userId, status: "COMPLETED"}})
findFirstCompleted_pendingOnly(l, userId, courseId) ==
  \E i \in 1..Len(l) : /\ l[i].userId = userId
                       /\ l[i].courseId = courseId
                       /\ l[i].status = "PENDING"

findFirstCompleted(l, userId, courseId) ==
  \E i \in 1..Len(l) : /\ l[i].userId = userId
                       /\ l[i].courseId = courseId
                       /\ l[i].status = "COMPLETED"

\* prisma.stripeAccount.findFirst({where: {educatorId}})
findStripeAccount(educatorId) == educatorId \in StripeAccounts

\* `INV-${Date.now().toString().substring(5)}` of a 13-digit millisecond clock
invoiceNumber(t) == t % InvoiceNumberModulus

RefundUser(userId) == userId \o "_REFUND"

stripeChargeIdOf(r) == r

\* the rows the request r has written
RowsOf(r) == {i \in TxnIds : ledger[i].req = r}
InvoicesOf(r) == {inv \in invoices : inv.req = r}

\* a payment of an earlier run of the service: its COMPLETED row and its
\* invoice, as the persist step of processPayment writes them (req 0: none of
\* the requests of this run)
EarlierPayment ==
  [type |-> "PAYMENT", status |-> "COMPLETED",
   userId |-> "u1", courseId |-> "c1", educatorId |-> "e1", amount |-> 9900,
   platformCommission |-> calculatePlatformCommission(9900).platformCommission,
   educatorEarnings |-> calculatePlatformCommission(9900).educatorEarnings,
   ratioDen |-> 1, stripeChargeId |-> <<"pi", 0>>, refundId |-> 0,
   originalTransactionId |-> 0, req |-> 0]

EarlierInvoice ==
  [transactionId |-> 1, invoiceNumber |-> -1, subtotal |-> 9900,
   total |-> 9900, status |-> "PAID", req |-> 0]

NoCalc == [amounts |-> <<>>, splits |-> <<>>]

NoStat == [pc |-> "idle", error |-> "none", commitsBefore |-> {},
           recomputed |-> FALSE]

\* an error object: statusCode 0 stands for undefined
NoError == [name |-> "", statusCode |-> 0]

\* no request to a statistics endpoint yet
NoHttp == [pc |-> "idle", nodeEnv |-> "", endpoint |-> "", header |-> "",
           identity |-> "", role |-> "", id |-> "", educatorId |-> "",
           hasDates |-> FALSE, user |-> FALSE, err |-> NoError, status |-> 0,
           handlerInvoked |-> FALSE, serviceInvoked |-> FALSE,
           serviceArg |-> ""]

\* the service starts on the ledger an earlier run left
InitService ==
  /\ build \in Builds
  /\ now = 0
  /\ ledger = <<EarlierPayment>>
  /\ invoices = {EarlierInvoice}
  /\ req = [r \in Reqs |-> NoReq]
  /\ timers = <<>>
  /\ chargeCalls = [r \in Reqs |-> 0]
  /\ refundsIssued = [r \in Reqs |-> 0]
  /\ reversals = [r \in Reqs |-> 0]
  /\ notified = [r \in Reqs |-> {}]
  /\ auditLog = {}
  /\ invalidated = {}
  /\ stat = [s \in Stats |-> NoStat]
  /\ http = NoHttp

Init == InitService /\ calc = NoCalc

\* the values a Date.now() read can return: the clock never runs backwards
ClockReads == now..MaxClock

\* request slots are taken in order
PreviousSlotUsed(r) == IF r = 1 THEN TRUE ELSE req[r - 1].pc # "idle"

\* ------------------------------------------------------- processPayment
\* the catch block of processPayment: schedule the FAILED record
CatchTimers_none(r, amount) == <<>>

CatchTimers(r, amount) ==
  IF amount # 0 THEN <<[kind |-> "recordFailed", req |-> r]>> ELSE <<>>

\* the error the validation step throws, from the two reads
ValidationError_noDuplicateCheck(duplicateCheck, educatorAccount) ==
  IF ~educatorAccount THEN "edu_not_found_err" ELSE "none"

ValidationError(duplicateCheck, educatorAccount) ==
  IF ~educatorAccount THEN "edu_not_found_err"
  ELSE IF duplicateCheck THEN "already_enrolled_err"
  ELSE "none"

\* where processPayment goes after the validation reads
AfterValidate_noThrow(err) == "charge"

AfterValidate(err) == IF err = "none" THEN "charge" ELSE "failed"

\* A request arrives at POST /payments (slots are taken in order) and runs
\* to the end of its validation: Promise.all of the two reads, then the two
\* checks.
PayValidateOn(r, inputs) ==
  /\ req[r].pc = "idle"
  /\ PreviousSlotUsed(r)
  /\ \E in \in inputs :
       LET dup == findFirstCompleted(ledger, in[1], in[2])
           acc == findStripeAccount(in[3])
           err == ValidationError(dup, acc)
           nxt == AfterValidate(err)
       IN /\ req' = [req EXCEPT ![r] = [NoReq EXCEPT !.kind = "payment",
                                                     !.userId = in[1],
                                                     !.courseId = in[2],
                                                     !.educatorId = in[3],
                                                     !.amount = in[4],
                                                     !.duplicateCheck = dup,
                                                     !.educatorAccount = acc,
                                                     !.validated = (err = "none"),
                                                     !.error = err,
                                                     !.pc = nxt]]
          /\ timers' = IF nxt = "failed" THEN timers \o CatchTimers(r, in[4])
                       ELSE timers
  /\ UNCHANGED <<http, calc, stat, build, now, ledger, invoices, chargeCalls,
                 refundsIssued, reversals, notified, auditLog, invalidated>>

PayValidate(r) == PayValidateOn(r, PaymentInputs)

\* stripe.paymentIntents.create({... confirm: true ...})
PayCharge(r) ==
  /\ req[r].kind = "payment" /\ req[r].pc = "charge"
  /\ chargeCalls' = [chargeCalls EXCEPT ![r] = @ + 1]
  /\ \E outcome \in {"succeeded", "requires_action", "throws"} :
       IF outcome = "throws"
       THEN /\ req' = [req EXCEPT ![r].error = "gateway_err", ![r].pc = "failed"]
            /\ timers' = timers \o CatchTimers(r, req[r].amount)
       ELSE /\ req' = [req EXCEPT ![r].chargeReturned = TRUE,
                                  ![r].chargeStatus = outcome,
                                  ![r].pc = "persist"]
            /\ UNCHANGED timers
  /\ UNCHANGED <<http, calc, stat, build, now, ledger, invoices,
                 refundsIssued, reversals, notified, auditLog, invalidated>>

\* the two rows of the persist step
PaymentRow_alwaysCompleted(r) ==
  LET split == calculatePlatformCommission(req[r].amount)
  IN [type |-> "PAYMENT", status |-> "COMPLETED",
      userId |-> req[r].userId, courseId |-> req[r].courseId,
      educatorId |-> req[r].educatorId, amount |-> req[r].amount,
      platformCommission |-> split.platformCommission,
      educatorEarnings |-> split.educatorEarnings, ratioDen |-> 1,
      stripeChargeId |-> <<"pi", stripeChargeIdOf(r)>>, refundId |-> 0,
      originalTransactionId |-> 0, req |-> r]

PaymentRow(r) ==
  LET split == calculatePlatformCommission(req[r].amount)
  IN [type |-> "PAYMENT",
      status |-> IF req[r].chargeStatus = "succeeded" THEN "COMPLETED"
                 ELSE "PENDING",
      userId |-> req[r].userId, courseId |-> req[r].courseId,
      educatorId |-> req[r].educatorId, amount |-> req[r].amount,
      platformCommission |-> split.platformCommission,
      educatorEarnings |-> split.educatorEarnings, ratioDen |-> 1,
      stripeChargeId |-> <<"pi", stripeChargeIdOf(r)>>, refundId |-> 0,
      originalTransactionId |-> 0, req |-> r]

InvoiceRow(r, transactionId, t) ==
  [transactionId |-> transactionId, invoiceNumber |-> invoiceNumber(t),
   subtotal |-> req[r].amount, total |-> req[r].amount, status |-> "PAID",
   req |-> r]

\* Invoice.invoiceNumber @unique
InvoiceNumberTaken(invs, inv) ==
  \E other \in invs : other.invoiceNumber = inv.invoiceNumber

\* prisma.$transaction(async (tx) => {create transaction; create invoice}):
\* fail names the write that throws; a throw rolls both writes back
CommitPayment_noRollback(l, invs, txn, inv, fail) ==
  IF fail = "transaction" THEN [ok |-> FALSE, ledger |-> l, invoices |-> invs]
  ELSE IF fail = "invoice" \/ InvoiceNumberTaken(invs, inv)
       THEN [ok |-> FALSE, ledger |-> Append(l, txn), invoices |-> invs]
  ELSE [ok |-> TRUE, ledger |-> Append(l, txn), invoices |-> invs \cup {inv}]

CommitPayment(l, invs, txn, inv, fail) ==
  IF fail # "none" \/ InvoiceNumberTaken(invs, inv)
  THEN [ok |-> FALSE, ledger |-> l, invoices |-> invs]
  ELSE [ok |-> TRUE, ledger |-> Append(l, txn), invoices |-> invs \cup {inv}]

\* the setTimeout(..., 0) callbacks processPayment schedules in the
\* synchronous code right after the commit
PostCommitCallbacks(b) ==
  IF b = "A"
  THEN {"audit", "invalidate", "notifyEnroll", "notifyProgress", "notifyCourse"}
  ELSE {"audit"}

\* the persist step and the synchronous code that follows it
PayPersist(r) ==
  /\ req[r].kind = "payment" /\ req[r].pc = "persist"
  /\ \E fail \in {"none", "transaction", "invoice"}, t \in ClockReads :
       LET res == CommitPayment(ledger, invoices, PaymentRow(r),
                                InvoiceRow(r, Len(ledger) + 1, t), fail)
       IN /\ now' = t
          /\ ledger' = res.ledger
          /\ invoices' = res.invoices
          /\ IF res.ok
             THEN /\ timers' = Append(timers, [kind |-> "postCommit", req |-> r])
                  /\ req' = [req EXCEPT ![r].committed = TRUE,
                                        ![r].pc = IF build = "A" THEN "earnings"
                                                  ELSE "awaitEnroll"]
                  /\ notified' = IF build = "A" THEN notified
                                 ELSE [notified EXCEPT ![r] = @ \cup {"notifyEnroll"}]
             ELSE /\ timers' = timers \o CatchTimers(r, req[r].amount)
                  /\ req' = [req EXCEPT ![r].error = "persist_err",
                                        ![r].collided = (fail = "none"),
                                        ![r].pc = "failed"]
                  /\ UNCHANGED notified
  /\ UNCHANGED <<http, calc, stat, build, chargeCalls, refundsIssued, reversals, auditLog,
                 invalidated>>

\* build A: await getTotalEarningsForEducator(educatorId), inside the try
PayEarnings(r) ==
  /\ build = "A"
  /\ req[r].kind = "payment" /\ req[r].pc = "earnings"
  /\ \E dbOk \in BOOLEAN :
       IF dbOk
       THEN /\ timers' = Append(timers, [kind |-> "notifyEarnings", req |-> r])
            /\ req' = [req EXCEPT ![r].pc = "done"]
       ELSE /\ timers' = timers \o CatchTimers(r, req[r].amount)
            /\ req' = [req EXCEPT ![r].error = "fetching_err", ![r].pc = "failed"]
  /\ UNCHANGED <<http, calc, stat, build, now, ledger, invoices, chargeCalls, refundsIssued,
                 reversals, notified, auditLog, invalidated>>

\* build B: the awaited notifications; the notifiers swallow every error
\* (notifyUserService ENROLL_USER was dispatched by the persist step; the
\* remaining awaits touch nothing but the collaborators)
PayNotify(r) ==
  /\ build = "B"
  /\ req[r].kind = "payment" /\ req[r].pc = "awaitEnroll"
  /\ req' = [req EXCEPT ![r].pc = "done"]
  /\ notified' = [notified EXCEPT ![r] = @ \cup {"notifyCourse", "notifyEarnings"}]
  /\ UNCHANGED <<http, calc, stat, build, now, ledger, invoices, timers, chargeCalls,
                 refundsIssued, reversals, auditLog, invalidated>>

\* ------------------------------------------------- setTimeout(..., 0) queue
\* Timers of equal delay run in the order they were scheduled, and those
\* scheduled by one synchronous run expire together: the timers phase runs
\* them back to back. An entry of the queue is such a batch.
TimerHead(kinds) == timers # <<>> /\ Head(timers).kind \in kinds

\* the callbacks of a batch
Callbacks(b, kind) ==
  CASE kind = "postCommit" -> PostCommitCallbacks(b)
    [] kind = "notifyEarnings" -> {"notifyEarnings"}
    [] kind = "invalidate" -> {"invalidate"}

FailedRow(r) ==
  [type |-> "PAYMENT", status |-> "FAILED",
   userId |-> req[r].userId, courseId |-> req[r].courseId,
   educatorId |-> req[r].educatorId, amount |-> req[r].amount,
   platformCommission |-> 0, educatorEarnings |-> 0, ratioDen |-> 1,
   stripeChargeId |-> <<>>, refundId |-> 0, originalTransactionId |-> 0,
   req |-> r]

\* the key patterns invalidateTransactionCaches deletes
invalidateTransactionCaches == {"stats:*"}

\* the fire-and-forget callbacks: auditLogger.log, invalidateTransactionCaches
\* and the notifiers; none of them lets an error escape
TimerSideEffects ==
  /\ TimerHead({"postCommit", "notifyEarnings", "invalidate"})
  /\ timers' = Tail(timers)
  /\ LET r == Head(timers).req
         cbs == Callbacks(build, Head(timers).kind)
     IN /\ auditLog' = IF "audit" \in cbs
                       THEN auditLog \cup {[action |-> "PAYMENT_PROCESSED", req |-> r]}
                       ELSE auditLog
        /\ invalidated' = IF "invalidate" \in cbs THEN invalidated \cup {r}
                          ELSE invalidated
        /\ notified' = [notified EXCEPT ![r] = @ \cup (cbs \ {"audit", "invalidate"})]
  /\ UNCHANGED <<http, calc, stat, build, now, ledger, invoices, req, chargeCalls, refundsIssued,
                 reversals>>

\* the callback of the catch block: prisma.transaction.create of the FAILED
\* row in its own try/catch
TimerRecordFailed ==
  /\ TimerHead({"recordFailed"})
  /\ timers' = Tail(timers)
  /\ LET r == Head(timers).req
     IN \E dbOk \in BOOLEAN :
          IF dbOk
          THEN /\ ledger' = Append(ledger, FailedRow(r))
               /\ auditLog' = auditLog \cup {[action |-> "PAYMENT_FAILED", req |-> r]}
               /\ req' = [req EXCEPT ![r].failedWrite = "written"]
          ELSE /\ req' = [req EXCEPT ![r].failedWrite = "threw"]
               /\ UNCHANGED <<ledger, auditLog>>
  /\ UNCHANGED <<http, calc, stat, build, now, invoices, chargeCalls, refundsIssued,
                 reversals, notified, invalidated>>

\* -------------------------------------------------------- processRefund
\* whether the identifier amount is bound in processRefund: build B
\* destructures {transactionId, amount, reason}; build A destructures only
\* {transactionId, reason} and then reads amount (a ReferenceError)
amountInScope(b) == b = "B"

\* the error of the precondition checks on the row findUnique returned
RefundError_noStatusCheck(found, status) ==
  IF ~found THEN "not_found" ELSE "none"

RefundError(found, status) ==
  IF ~found THEN "not_found"
  ELSE IF status = "REFUNDED" THEN "already_refunded"
  ELSE "none"

\* A request arrives at POST /payments/refund (amount 0 stands for absent)
\* and runs findUnique, the two checks and
\* refundAmount = amount || originalTransaction.amount
RefundValidateOn(r, amounts) ==
  /\ req[r].pc = "idle"
  /\ PreviousSlotUsed(r)
  /\ \E t \in 1..(Len(ledger) + 1), a \in amounts :
       LET found == t \in TxnIds
           err == RefundError(found, IF found THEN ledger[t].status ELSE "")
           new == [NoReq EXCEPT !.kind = "refund", !.transactionId = t,
                                !.amount = a]
       IN IF err # "none"
          THEN req' = [req EXCEPT ![r] = [new EXCEPT !.error = err,
                                                     !.pc = "failed"]]
          ELSE IF ~amountInScope(build)
          THEN req' = [req EXCEPT ![r] = [new EXCEPT !.validated = TRUE,
                                                     !.error = "reference_err",
                                                     !.pc = "failed"]]
          ELSE req' = [req EXCEPT ![r] =
                         [new EXCEPT !.validated = TRUE,
                                     !.refundAmount = IF a # 0 THEN a
                                                      ELSE ledger[t].amount,
                                     !.pc = "retrieve"]]
  /\ UNCHANGED <<http, calc, stat, build, now, ledger, invoices, timers, chargeCalls,
                 refundsIssued, reversals, notified, auditLog, invalidated>>

RefundValidate(r) == RefundValidateOn(r, RefundAmountInputs)

\* stripe.paymentIntents.retrieve(stripeChargeId), then
\* stripe.charges.retrieve(latest_charge): the gateway knows only the
\* payment intents it created
RefundRetrieve(r) ==
  /\ req[r].kind = "refund" /\ req[r].pc = "retrieve"
  /\ LET id == ledger[req[r].transactionId].stripeChargeId
     IN \E outcome \in {"throws", "transfer", "noTransfer"} :
          IF outcome = "throws" \/ id = <<>> \/ id[1] # "pi"
          THEN req' = [req EXCEPT ![r].error = "gateway_err", ![r].pc = "failed"]
          ELSE req' = [req EXCEPT ![r].hasTransfer = (outcome = "transfer"),
                                  ![r].pc = "refund"]
  /\ UNCHANGED <<http, calc, stat, build, now, ledger, invoices, timers, chargeCalls,
                 refundsIssued, reversals, notified, auditLog, invalidated>>

\* stripe.refunds.create({charge, amount, reason})
RefundGateway(r) ==
  /\ req[r].kind = "refund" /\ req[r].pc = "refund"
  /\ \E ok \in BOOLEAN :
       IF ok
       THEN /\ refundsIssued' = [refundsIssued EXCEPT ![r] = @ + 1]
            /\ req' = [req EXCEPT ![r].chargeReturned = TRUE, ![r].pc = "reversal"]
       ELSE /\ req' = [req EXCEPT ![r].error = "gateway_err", ![r].pc = "failed"]
            /\ UNCHANGED refundsIssued
  /\ UNCHANGED <<http, calc, stat, build, now, ledger, invoices, timers, chargeCalls,
                 reversals, notified, auditLog, invalidated>>

\* whether processRefund calls stripe.transfers.createReversal: build A
\* guards the call with charge.transfer, build B calls it always
callsReversal(b, hasTransfer) == b = "B" \/ hasTransfer

\* the amount of the reversal: originalTransaction.educatorEarnings * 100,
\* whatever the refund amount (in the units of the row's educatorEarnings)
reversalAmount(original, refundAmount) == original.educatorEarnings

\* stripe.transfers.createReversal(charge.transfer, {amount: educatorEarnings * 100})
\* (the gateway rejects a reversal of no transfer)
RefundReversal(r) ==
  /\ req[r].kind = "refund" /\ req[r].pc = "reversal"
  /\ IF ~callsReversal(build, req[r].hasTransfer)
     THEN /\ req' = [req EXCEPT ![r].pc = "create"]
          /\ UNCHANGED reversals
     ELSE LET called == [req EXCEPT
                          ![r].reversalCalled = TRUE,
                          ![r].reversalAmount =
                             reversalAmount(ledger[req[r].transactionId],
                                            req[r].refundAmount)]
          IN \E ok \in BOOLEAN :
               IF ok /\ req[r].hasTransfer
               THEN /\ reversals' = [reversals EXCEPT ![r] = @ + 1]
                    /\ req' = [called EXCEPT ![r].pc = "create"]
               ELSE /\ req' = [called EXCEPT ![r].error = "gateway_err",
                                             ![r].pc = "failed"]
                    /\ UNCHANGED reversals
  /\ UNCHANGED <<http, calc, stat, build, now, ledger, invoices, timers, chargeCalls,
                 refundsIssued, notified, auditLog, invalidated>>

\* the REFUND row: the original's split scaled by refundAmount / amount
RefundRow_unsigned(r) ==
  LET o == ledger[req[r].transactionId]
  IN [type |-> "REFUND", status |-> "COMPLETED",
      userId |-> RefundUser(o.userId), courseId |-> o.courseId,
      educatorId |-> o.educatorId, amount |-> req[r].refundAmount,
      platformCommission |-> o.platformCommission * req[r].refundAmount,
      educatorEarnings |-> o.educatorEarnings * req[r].refundAmount,
      ratioDen |-> o.ratioDen * o.amount,
      stripeChargeId |-> <<"re", r>>, refundId |-> 0,
      originalTransactionId |-> req[r].transactionId, req |-> r]

RefundRow(r) ==
  LET o == ledger[req[r].transactionId]
  IN [type |-> "REFUND", status |-> "COMPLETED",
      userId |-> RefundUser(o.userId), courseId |-> o.courseId,
      educatorId |-> o.educatorId, amount |-> req[r].refundAmount,
      platformCommission |-> -(o.platformCommission * req[r].refundAmount),
      educatorEarnings |-> -(o.educatorEarnings * req[r].refundAmount),
      ratioDen |-> o.ratioDen * o.amount,
      stripeChargeId |-> <<"re", r>>, refundId |-> 0,
      originalTransactionId |-> req[r].transactionId, req |-> r]

\* 4. prisma.transaction.create of the REFUND row
RefundCreate(r) ==
  /\ req[r].kind = "refund" /\ req[r].pc = "create"
  /\ \E dbOk \in BOOLEAN :
       IF dbOk
       THEN /\ ledger' = Append(ledger, RefundRow(r))
            /\ req' = [req EXCEPT ![r].refundTxn = Len(ledger) + 1,
                                  ![r].pc = "update"]
       ELSE /\ req' = [req EXCEPT ![r].error = "db_write_err", ![r].pc = "failed"]
            /\ UNCHANGED ledger
  /\ UNCHANGED <<http, calc, stat, build, now, invoices, timers, chargeCalls,
                 refundsIssued, reversals, notified, auditLog, invalidated>>

\* 5. prisma.transaction.update of the original
RefundUpdate(r) ==
  /\ req[r].kind = "refund" /\ req[r].pc = "update"
  /\ \E dbOk \in BOOLEAN :
       IF dbOk
       THEN /\ ledger' = [ledger EXCEPT ![req[r].transactionId].status = "REFUNDED",
                                        ![req[r].transactionId].refundId =
                                           req[r].refundTxn]
            /\ req' = [req EXCEPT ![r].pc = "invoice"]
       ELSE /\ req' = [req EXCEPT ![r].error = "db_write_err", ![r].pc = "failed"]
            /\ UNCHANGED ledger
  /\ UNCHANGED <<http, calc, stat, build, now, invoices, timers, chargeCalls,
                 refundsIssued, reversals, notified, auditLog, invalidated>>

\* invoiceService.updateInvoiceStatus(transactionId, "CANCELLED", note)
updateInvoiceStatus(invs, transactionId, status) ==
  {IF inv.transactionId = transactionId THEN [inv EXCEPT !.status = status]
   ELSE inv : inv \in invs}

\* 6. the invoice update, then the first notification is dispatched
RefundInvoice(r) ==
  /\ req[r].kind = "refund" /\ req[r].pc = "invoice"
  /\ \E dbOk \in BOOLEAN :
       IF dbOk /\ \E inv \in invoices : inv.transactionId = req[r].transactionId
       THEN /\ invoices' = updateInvoiceStatus(invoices, req[r].transactionId,
                                               "CANCELLED")
            /\ req' = [req EXCEPT ![r].committed = TRUE,
                                  ![r].pc = "awaitRemoveEnrollment"]
            /\ notified' = [notified EXCEPT ![r] = @ \cup {"notifyRemoveEnrollment"}]
       ELSE /\ req' = [req EXCEPT ![r].error = "db_write_err", ![r].pc = "failed"]
            /\ UNCHANGED <<invoices, notified>>
  /\ UNCHANGED <<http, calc, stat, build, now, ledger, timers, chargeCalls,
                 refundsIssued, reversals, auditLog, invalidated>>

\* 7. the awaited notifications; the notifiers swallow every error
\* (REMOVE_ENROLLMENT was dispatched by the invoice step), then
\* 8. the audit entry, and in build A the timer of the cache invalidation
RefundNotify(r) ==
  /\ req[r].kind = "refund" /\ req[r].pc = "awaitRemoveEnrollment"
  /\ req' = [req EXCEPT ![r].pc = "done"]
  /\ notified' = [notified EXCEPT ![r] = @ \cup {"notifyCourseRemove",
                                                 "notifyEarningsRefunded"}]
  /\ auditLog' = auditLog \cup {[action |-> "REFUND_PROCESSED", req |-> r]}
  /\ timers' = IF build = "A"
               THEN Append(timers, [kind |-> "invalidate", req |-> r])
               ELSE timers
  /\ UNCHANGED <<http, calc, stat, build, now, ledger, invoices, chargeCalls,
                 refundsIssued, reversals, invalidated>>

\* ------------------------------------------------- the HTTP status codes
\* the statusCode field of `new AppError(...)`: the constructor is
\* (name, message, statusCode); build A passes three arguments, build B
\* passes (message, statusCode), which leaves statusCode undefined (0)
AppErrorStatusCode(b, statusCode) == IF b = "A" THEN statusCode ELSE 0

\* the statusCode of the error a rejected call throws to its controller:
\* processPayment of build A rethrows the error of the check, processRefund
\* of build A wraps every error as refund_err 400, and build B wraps every
\* error in a new AppError
RejectionStatusCode(b, err) ==
  CASE err \in {"already_enrolled_err", "edu_not_found_err"}
         -> AppErrorStatusCode(b, 400)
    [] err \in {"not_found", "already_refunded"}
         -> AppErrorStatusCode(b, 400)

\* the controllers answer res.status(error.statusCode || 500)
ControllerStatus(statusCode) == IF statusCode # 0 THEN statusCode ELSE 500

\* ---------------------------------------------------------- specification
Next ==
  \/ \E r \in Reqs : PayValidate(r)
  \/ \E r \in Reqs : PayCharge(r)
  \/ \E r \in Reqs : PayPersist(r)
  \/ \E r \in Reqs : PayEarnings(r)
  \/ \E r \in Reqs : PayNotify(r)
  \/ TimerSideEffects
  \/ TimerRecordFailed
  \/ \E r \in Reqs : RefundValidate(r)
  \/ \E r \in Reqs : RefundRetrieve(r)
  \/ \E r \in Reqs : RefundGateway(r)
  \/ \E r \in Reqs : RefundReversal(r)
  \/ \E r \in Reqs : RefundCreate(r)
  \/ \E r \in Reqs : RefundUpdate(r)
  \/ \E r \in Reqs : RefundInvoice(r)
  \/ \E r \in Reqs : RefundNotify(r)

Spec == Init /\ [][Next]_vars

\* two requests drawn from the wider inputs
PayValidateWide(r) == PayValidateOn(r, WidePaymentInputs)

RefundValidateWide(r) == RefundValidateOn(r, WideRefundAmountInputs)

TwoReqs == {1, 2}

NextWide ==
  \/ \E r \in TwoReqs : PayValidateWide(r)
  \/ \E r \in TwoReqs : PayCharge(r)
  \/ \E r \in TwoReqs : PayPersist(r)
  \/ \E r \in TwoReqs : PayEarnings(r)
  \/ \E r \in TwoReqs : PayNotify(r)
  \/ TimerSideEffects
  \/ TimerRecordFailed
  \/ \E r \in TwoReqs : RefundValidateWide(r)
  \/ \E r \in TwoReqs : RefundRetrieve(r)
  \/ \E r \in TwoReqs : RefundGateway(r)
  \/ \E r \in TwoReqs : RefundReversal(r)
  \/ \E r \in TwoReqs : RefundCreate(r)
  \/ \E r \in TwoReqs : RefundUpdate(r)
  \/ \E r \in TwoReqs : RefundInvoice(r)
  \/ \E r \in TwoReqs : RefundNotify(r)

SpecWide == Init /\ [][NextWide]_vars

\* ------------------------------------------- the commission calculator
\* calculatePlatformCommission is called on one amount of each tier
InitCalc ==
  /\ InitService
  /\ \E a1 \in HighAmounts, a2 \in MidAmounts, a3 \in LowAmounts :
       calc = [amounts |-> <<a1, a2, a3>>, splits |-> <<>>]

Calculate ==
  /\ calc.amounts # <<>> /\ calc.splits = <<>>
  /\ calc' = [calc EXCEPT !.splits =
                 [k \in 1..3 |-> calculatePlatformCommission(calc.amounts[k])]]
  /\ UNCHANGED <<build, now, ledger, invoices, req, timers, chargeCalls,
                 refundsIssued, reversals, notified, auditLog, invalidated,
                 stat, http>>

NextCalc == Calculate

SpecCalc == InitCalc /\ [][NextCalc]_vars

\* ------------------------------------------------ the statistics service
\* the identifiers statisticsService.js binds at module level
StatisticsBindings ==
  {"prisma", "Prisma", "logger", "AppError", "redisCache", "CACHE_TTLS",
   "buildDateFilter", "generateCacheKey"}

\* the requests whose commit has succeeded
Committed == {r \in Reqs : req[r].committed}

\* getTransactionVolumes(filters): the first statement after the key is
\* built reads cacheUtils.get; an unbound identifier throws a
\* ReferenceError, which the catch turns into stats_transaction_err before
\* the cache or the ledger is read
getTransactionVolumes(s) ==
  /\ stat[s].pc = "idle"
  /\ IF s = 1 THEN TRUE ELSE stat[s - 1].pc # "idle"
  /\ stat' = [stat EXCEPT ![s] =
                IF "cacheUtils" \in StatisticsBindings
                THEN [pc |-> "done", error |-> "none",
                      commitsBefore |-> Committed, recomputed |-> TRUE]
                ELSE [pc |-> "failed", error |-> "stats_transaction_err",
                      commitsBefore |-> Committed, recomputed |-> FALSE]]
  /\ UNCHANGED <<build, now, ledger, invoices, req, timers, chargeCalls,
                 refundsIssued, reversals, notified, auditLog, invalidated,
                 calc, http>>

\* one payment or refund and the statistics calls around it
NextCache ==
  \/ PayValidate(1)
  \/ PayCharge(1)
  \/ PayPersist(1)
  \/ PayEarnings(1)
  \/ PayNotify(1)
  \/ TimerSideEffects
  \/ TimerRecordFailed
  \/ RefundValidate(1)
  \/ RefundRetrieve(1)
  \/ RefundGateway(1)
  \/ RefundReversal(1)
  \/ RefundCreate(1)
  \/ RefundUpdate(1)
  \/ RefundInvoice(1)
  \/ RefundNotify(1)
  \/ \E s \in Stats : getTransactionVolumes(s)

SpecCache == Init /\ [][NextCache]_vars

\* ------------------------------------- the statistics routes over HTTP
NodeEnvs == {"production", "development"}
Endpoints == {"transaction-volumes", "payment-analytics"}
Headers == {"missing", "bearer"}
\* what the identity service does with the token: answers valid, answers
\* not valid, refuses the connection, fails otherwise, or fails with a
\* message that includes "Invalid or expired token"
IdentityOutcomes == {"valid", "invalid", "refused", "error", "rejected"}
Roles == {"USER", "EDUCATOR", "ADMIN"}
UserIds == {"edu1", "edu2"}

\* new AppError(...args): constructor(name = "AppError", message, statusCode)
AppError(args) ==
  [name |-> IF Len(args) >= 1 THEN args[1] ELSE "AppError",
   statusCode |-> IF Len(args) >= 3 THEN args[3] ELSE 0]

\* the statusCode errorHandler answers with
errorHandlerStatus(err) ==
  CASE err.name = "ValidationError" -> 400
    [] err.name \in {"JsonWebTokenError", "TokenExpiredError"} -> 401
    [] err.name \in {"acc_not_found_err", "invoice_not_found_err",
                     "invoice_fetching_err", "edu_not_found_err",
                     "fetching_err"} -> 404
    [] err.name \in {"acc_found_err", "already_enrolled_err"} -> 409
    [] err.name \in {"invoice_create_err", "invoice_update_err",
                     "enrollment_check_err", "transaction_err", "refund_err",
                     "report_invalid_date_err", "stats_invalid_date_err"} -> 400
    [] err.name \in {"acc_create_err", "acc_connect_err", "acc_delete_err",
                     "invoice_generate_err", "report_err",
                     "report_generation_err", "report_pdf_generation_err",
                     "report_earning_err", "report_generate_err",
                     "stats_transaction_err", "stats_financial_err",
                     "stats_payment_operations_err",
                     "stats_educator_analytics_err"} -> 500
    [] OTHER -> IF err.statusCode # 0 THEN err.statusCode ELSE 500

\* the error a call of the statistics service throws ("none": it returns)
StatisticsServiceError(name) ==
  IF "cacheUtils" \in StatisticsBindings THEN "none" ELSE name

\* a GET request arrives at one of the statistics routes
Request ==
  /\ http.pc = "idle"
  /\ \E env \in NodeEnvs, ep \in Endpoints, h \in Headers,
        o \in IdentityOutcomes, role \in Roles, id \in UserIds,
        educatorId \in UserIds, dates \in BOOLEAN :
       http' = [NoHttp EXCEPT !.pc = "auth", !.nodeEnv = env, !.endpoint = ep,
                              !.header = h, !.identity = o, !.role = role,
                              !.id = id, !.educatorId = educatorId,
                              !.hasDates = dates]
  /\ UNCHANGED <<build, now, ledger, invoices, req, timers, chargeCalls,
                 refundsIssued, reversals, notified, auditLog, invalidated,
                 calc, stat>>

\* NODE_ENV development: the routes mount the factory
\* mockEducatorAuthMiddleware itself, which returns a middleware and
\* neither answers nor calls next
mockEducatorAuthMiddleware ==
  /\ http.pc = "auth" /\ http.nodeEnv = "development"
  /\ http' = [http EXCEPT !.pc = "hung"]
  /\ UNCHANGED <<build, now, ledger, invoices, req, timers, chargeCalls,
                 refundsIssued, reversals, notified, auditLog, invalidated,
                 calc, stat>>

\* the error validateToken passes to next ("none": req.user is set)
validateTokenError(header, identity) ==
  IF header = "missing"
  THEN AppError(<<"ValidationError", "Authentication token is missing", 401>>)
  ELSE CASE identity = "valid" -> NoError
         [] identity = "invalid"
              -> AppError(<<"JsonWebTokenError", "Invalid or expired token", 401>>)
         [] identity = "refused"
              -> AppError(<<"ECONNREFUSED", "Authentication service unavailable", 503>>)
         [] identity = "error"
              -> AppError(<<"JsonWebTokenError", "Invalid Token", 401>>)
         [] identity = "rejected"
              -> AppError(<<"ValidationError", "Authentication failed", 401>>)

validateToken ==
  /\ http.pc = "auth" /\ http.nodeEnv # "development"
  /\ LET error == validateTokenError(http.header, http.identity)
     IN IF error # NoError
        THEN http' = [http EXCEPT !.err = error, !.pc = "error"]
        ELSE http' = [http EXCEPT !.user = TRUE,
                        !.pc = IF http.endpoint = "transaction-volumes"
                               THEN "role" ELSE "controller"]
  /\ UNCHANGED <<build, now, ledger, invoices, req, timers, chargeCalls,
                 refundsIssued, reversals, notified, auditLog, invalidated,
                 calc, stat>>

\* the error requireRole(roles) passes to next
requireRoleError(roles, user, role) ==
  IF ~user
  THEN AppError(<<"ValidationError", "User not authenticated", 401>>)
  ELSE IF role \notin roles
  THEN AppError(<<"ValidationError", "Access denied: insufficient permissions",
                  403>>)
  ELSE NoError

\* requireRole("ADMIN") of /transaction-volumes
requireRole ==
  /\ http.pc = "role"
  /\ LET error == requireRoleError({"ADMIN"}, http.user, http.role)
     IN IF error # NoError
        THEN http' = [http EXCEPT !.err = error, !.pc = "error"]
        ELSE http' = [http EXCEPT !.pc = "controller"]
  /\ UNCHANGED <<build, now, ledger, invoices, req, timers, chargeCalls,
                 refundsIssued, reversals, notified, auditLog, invalidated,
                 calc, stat>>

\* statisticsController.getTransactionVolumes
getTransactionVolumesController ==
  /\ http.pc = "controller" /\ http.endpoint = "transaction-volumes"
  /\ LET entered == [http EXCEPT !.handlerInvoked = TRUE]
         thrown == StatisticsServiceError("stats_transaction_err")
     IN IF ~http.hasDates
        THEN http' = [entered EXCEPT
                        !.err = AppError(<<"Please provide both startDate and endDate query parameters", 400>>),
                        !.pc = "error"]
        ELSE IF thrown # "none"
        THEN http' = [entered EXCEPT
                        !.serviceInvoked = TRUE,
                        !.err = AppError(<<thrown, "Failed to fetch transaction volumes", 500>>),
                        !.pc = "error"]
        ELSE http' = [entered EXCEPT !.serviceInvoked = TRUE, !.status = 200,
                                     !.pc = "answered"]
  /\ UNCHANGED <<build, now, ledger, invoices, req, timers, chargeCalls,
                 refundsIssued, reversals, notified, auditLog, invalidated,
                 calc, stat>>

\* statisticsController.getEducatorPaymentAnalytics
getEducatorPaymentAnalyticsController ==
  /\ http.pc = "controller" /\ http.endpoint = "payment-analytics"
  /\ LET entered == [http EXCEPT !.handlerInvoked = TRUE]
         thrown == StatisticsServiceError("stats_educator_analytics_err")
     IN IF http.role # "ADMIN" /\ http.id # http.educatorId
        THEN http' = [entered EXCEPT
                        !.err = AppError(<<"You are not authorized to view these analytics", 403>>),
                        !.pc = "error"]
        ELSE IF thrown # "none"
        THEN http' = [entered EXCEPT
                        !.serviceInvoked = TRUE,
                        !.serviceArg = http.educatorId,
                        !.err = AppError(<<thrown, "Failed to fetch educator payment analytics", 500>>),
                        !.pc = "error"]
        ELSE http' = [entered EXCEPT !.serviceInvoked = TRUE,
                                     !.serviceArg = http.educatorId,
                                     !.status = 200, !.pc = "answered"]
  /\ UNCHANGED <<build, now, ledger, invoices, req, timers, chargeCalls,
                 refundsIssued, reversals, notified, auditLog, invalidated,
                 calc, stat>>

\* app.use(errorHandler): res.status(statusCode).json(...)
errorHandler ==
  /\ http.pc = "error"
  /\ http' = [http EXCEPT !.status = errorHandlerStatus(http.err),
                          !.pc = "answered"]
  /\ UNCHANGED <<build, now, ledger, invoices, req, timers, chargeCalls,
                 refundsIssued, reversals, notified, auditLog, invalidated,
                 calc, stat>>

NextHttp ==
  \/ Request
  \/ mockEducatorAuthMiddleware
  \/ validateToken
  \/ requireRole
  \/ getTransactionVolumesController
  \/ getEducatorPaymentAnalyticsController
  \/ errorHandler

SpecHttp == Init /\ [][NextHttp]_vars

\* ------------------------------------------------------------ properties
PaymentReqs == {r \in Reqs : req[r].kind = "payment"}
RefundReqs == {r \in Reqs : req[r].kind = "refund"}

CompletedPayments(userId, courseId) ==
  {i \in TxnIds : /\ ledger[i].type = "PAYMENT"
                  /\ ledger[i].status = "COMPLETED"
                  /\ ledger[i].userId = userId
                  /\ ledger[i].courseId = courseId}

\* the rows of r that the persist step writes (not the FAILED record)
PersistedRowsOf(r) == {i \in RowsOf(r) : ledger[i].status # "FAILED"}
FailedRowsOf(r) == {i \in RowsOf(r) : ledger[i].status = "FAILED"}

RecordFailedPending(r) ==
  \E k \in 1..Len(timers) : timers[k] = [kind |-> "recordFailed", req |-> r]

ValidationErrors == {"already_enrolled_err", "edu_not_found_err"}

\* C1: at most one COMPLETED PAYMENT transaction exists for a (userId,
\* courseId) pair, in every reachable state, concurrent calls included.
C1_AtMostOneCompleted ==
  \A i \in TxnIds, j \in TxnIds :
    ( /\ ledger[i].type = "PAYMENT" /\ ledger[i].status = "COMPLETED"
      /\ ledger[j].type = "PAYMENT" /\ ledger[j].status = "COMPLETED"
      /\ ledger[i].userId = ledger[j].userId
      /\ ledger[i].courseId = ledger[j].courseId ) => i = j

\* C2: a processPayment call whose validation runs while a COMPLETED PAYMENT
\* transaction of its (userId, courseId) stands in the ledger fails at that
\* step, and a call rejected as already enrolled never writes a COMPLETED or
\* PENDING row or an invoice.
C2_SecondPaymentFails ==
  [][ \A r \in Reqs :
        /\ ( /\ req[r].pc = "idle" /\ req'[r].kind = "payment"
             /\ CompletedPayments(req'[r].userId, req'[r].courseId) # {} )
           => req'[r].pc = "failed"
        /\ req[r].error = "already_enrolled_err"
           => /\ req'[r].pc = "failed"
              /\ \A i \in 1..Len(ledger') :
                   ledger'[i].req = r => ledger'[i].status = "FAILED"
              /\ \A inv \in invoices' : inv.req # r ]_vars

C2_Witness ==
  \E r1 \in Reqs, r2 \in Reqs :
    /\ req[r1].kind = "payment" /\ req[r1].pc = "done"
    /\ \E i \in RowsOf(r1) : ledger[i].status = "COMPLETED"
    /\ req[r2].kind = "payment" /\ req[r2].error = "already_enrolled_err"
    /\ req[r2].userId = req[r1].userId /\ req[r2].courseId = req[r1].courseId
    /\ req[r2].pc = "failed" /\ chargeCalls[r2] = 0

\* C3: for every original transaction at most one gateway refund is issued
\* and at most one REFUND transaction references it, whatever the sequence or
\* interleaving of processRefund calls.
C3_AtMostOneRefund ==
  \A t \in TxnIds :
    /\ Cardinality({r \in RefundReqs : req[r].transactionId = t
                                        /\ refundsIssued[r] > 0}) <= 1
    /\ Cardinality({i \in TxnIds : ledger[i].type = "REFUND"
                                    /\ ledger[i].originalTransactionId = t}) <= 1

\* C4: the persist step is all-or-nothing: a COMPLETED or PENDING PAYMENT
\* row has its invoice, every invoice has its PAYMENT row, and a persist step
\* that failed has left neither a row nor an invoice.
C4_PersistAtomic ==
  /\ \A i \in TxnIds :
       (ledger[i].type = "PAYMENT" /\ ledger[i].status \in {"COMPLETED", "PENDING"})
       => \E inv \in invoices : inv.transactionId = i
  /\ \A inv \in invoices :
       /\ inv.transactionId \in TxnIds
       /\ ledger[inv.transactionId].type = "PAYMENT"
       /\ ledger[inv.transactionId].status # "FAILED"
  /\ \A r \in PaymentReqs :
       req[r].error = "persist_err"
       => PersistedRowsOf(r) = {} /\ InvoicesOf(r) = {}

C4_Witness ==
  \E r1 \in PaymentReqs, r2 \in PaymentReqs :
    /\ req[r1].error = "persist_err" /\ req[r1].chargeReturned
    /\ req[r2].committed /\ PersistedRowsOf(r2) # {} /\ InvoicesOf(r2) # {}

\* C5: a processRefund that has failed leaves either all of its ledger
\* writes (REFUND row, original REFUNDED with refundId, invoice CANCELLED) or
\* none of them.
C5_RefundAllOrNothing ==
  \A r \in RefundReqs :
    req[r].pc = "failed"
    => \/ RowsOf(r) = {}
       \/ /\ ledger[req[r].transactionId].status = "REFUNDED"
          /\ ledger[req[r].transactionId].refundId \in RowsOf(r)
          /\ \E inv \in invoices : /\ inv.transactionId = req[r].transactionId
                                   /\ inv.status = "CANCELLED"

\* C6: processPayment calls the gateway charge only after both validation
\* reads have passed: never for an educator without a payout account, never
\* when the duplicate read found a COMPLETED transaction.
C6_NoChargeBeforeValidation ==
  \A r \in PaymentReqs :
    /\ chargeCalls[r] > 0 => req[r].validated
    /\ req[r].educatorId \notin StripeAccounts => chargeCalls[r] = 0
    /\ (req[r].duplicateCheck \/ ~req[r].educatorAccount)
       => chargeCalls[r] = 0

C6_Witness ==
  \E r1 \in PaymentReqs, r2 \in PaymentReqs :
    /\ req[r1].error = "already_enrolled_err" /\ chargeCalls[r1] = 0
    /\ req[r2].error = "edu_not_found_err" /\ chargeCalls[r2] = 0

\* C7: a processPayment rejected at validation (already enrolled, educator
\* without payout account) creates no Transaction row of any status.
C7_RejectedWritesNothing ==
  \A r \in PaymentReqs :
    req[r].error \in ValidationErrors => RowsOf(r) = {}

\* C8: when the gateway charge throws, processPayment fails, writes no
\* COMPLETED or PENDING row and no invoice, has charged exactly once, and
\* schedules one asynchronous FAILED record: the callback is pending, or it
\* has run and written exactly one FAILED row (none only if that write threw).
C8_ChargeThrows ==
  \A r \in PaymentReqs :
    /\ chargeCalls[r] <= 1
    /\ req[r].error = "gateway_err"
       => /\ req[r].pc = "failed"
          /\ chargeCalls[r] = 1
          /\ PersistedRowsOf(r) = {} /\ InvoicesOf(r) = {}
          /\ \/ RecordFailedPending(r) /\ FailedRowsOf(r) = {}
             \/ /\ ~RecordFailedPending(r) /\ req[r].failedWrite = "written"
                /\ Cardinality(FailedRowsOf(r)) = 1
             \/ /\ ~RecordFailedPending(r) /\ req[r].failedWrite = "threw"
                /\ FailedRowsOf(r) = {}

C8_Witness ==
  \E r \in PaymentReqs :
    /\ req[r].error = "gateway_err" /\ req[r].failedWrite = "written"
    /\ Cardinality(FailedRowsOf(r)) = 1 /\ chargeCalls[r] = 1

\* C9: once the Transaction+Invoice commit has succeeded, no post-commit
\* failure makes processPayment fail or records a FAILED transaction.
C9_PostCommitNeverFails ==
  \A r \in PaymentReqs :
    req[r].committed
    => /\ req[r].pc # "failed"
       /\ FailedRowsOf(r) = {}
       /\ ~RecordFailedPending(r)

\* C10: within one request the steps come in the order validation, gateway
\* call, ledger persistence, notification.
C10_StepOrder ==
  /\ \A r \in PaymentReqs :
       /\ chargeCalls[r] > 0 => req[r].validated
       /\ (PersistedRowsOf(r) # {} \/ InvoicesOf(r) # {})
          => req[r].chargeReturned /\ chargeCalls[r] > 0
       /\ notified[r] # {}
          => PersistedRowsOf(r) # {} /\ InvoicesOf(r) # {}
  /\ \A r \in RefundReqs :
       /\ (refundsIssued[r] > 0 \/ reversals[r] > 0) => req[r].validated
       /\ reversals[r] > 0 => refundsIssued[r] > 0
       /\ ( \/ RowsOf(r) # {}
            \/ \E t \in TxnIds : ledger[t].refundId \in RowsOf(r) )
          => refundsIssued[r] > 0
       /\ notified[r] # {}
          => /\ RowsOf(r) # {}
             /\ ledger[req[r].transactionId].status = "REFUNDED"
             /\ \E inv \in invoices : /\ inv.transactionId = req[r].transactionId
                                      /\ inv.status = "CANCELLED"

C10_Witness ==
  \E r1 \in PaymentReqs, r2 \in RefundReqs :
    /\ req[r1].pc = "done" /\ notified[r1] # {}
    /\ req[r2].pc = "done" /\ notified[r2] # {}

RefundPreconditionErrors == {"not_found", "already_refunded"}

\* C11: the step of a refund that creates its record appends a REFUND row of
\* status COMPLETED that names the original and carries the original's
\* commission and earnings scaled by -refundAmount / originalAmount (as
\* fractions over the denominator ratioDen * originalAmount); the step that
\* updates the original sets its status to REFUNDED and its refundId to the
\* id of that row.
C11_RefundProration ==
  [][ \A r \in Reqs :
        LET t == req[r].transactionId
        IN /\ (req[r].pc = "create" /\ req'[r].pc = "update")
              => LET n == ledger'[Len(ledger')]
                     o == ledger[t]
                 IN /\ Len(ledger') = Len(ledger) + 1
                    /\ req'[r].refundTxn = Len(ledger')
                    /\ n.type = "REFUND" /\ n.status = "COMPLETED"
                    /\ n.originalTransactionId = t
                    /\ n.amount = req[r].refundAmount
                    /\ n.ratioDen = o.ratioDen * o.amount
                    /\ n.platformCommission
                         = -(req[r].refundAmount * o.platformCommission)
                    /\ n.educatorEarnings
                         = -(req[r].refundAmount * o.educatorEarnings)
           /\ (req[r].pc = "update" /\ req'[r].pc = "invoice")
              => /\ ledger'[t].status = "REFUNDED"
                 /\ ledger'[t].refundId = req[r].refundTxn
                 /\ ledger'[req[r].refundTxn].type = "REFUND"
                 /\ ledger'[req[r].refundTxn].req = r ]_vars

C11_Witness ==
  \E r \in RefundReqs :
    /\ req[r].pc = "done" /\ req[r].refundAmount = 5000
    /\ ledger[req[r].transactionId].amount = 9900
    /\ ledger[req[r].transactionId].status = "REFUNDED"
    /\ ledger[req[r].transactionId].refundId = req[r].refundTxn
    /\ ledger[req[r].refundTxn].platformCommission < 0

\* C12: a processRefund called with no amount on a payment that is not yet
\* REFUNDED fails only when a gateway call or a ledger write fails, and when
\* it succeeds its refund row has the original's amount, the original is
\* REFUNDED and the invoice CANCELLED.
C12_FullRefundSucceeds ==
  \A r \in RefundReqs :
    (req[r].amount = 0 /\ req[r].validated
     /\ ledger[req[r].transactionId].type = "PAYMENT")
    => /\ req[r].pc = "failed"
          => req[r].error \in {"gateway_err", "db_write_err"}
       /\ req[r].pc = "done"
          => /\ ledger[req[r].refundTxn].amount
                  = ledger[req[r].transactionId].amount
             /\ ledger[req[r].transactionId].status = "REFUNDED"
             /\ \E inv \in invoices :
                  /\ inv.transactionId = req[r].transactionId
                  /\ inv.status = "CANCELLED"

\* C13: a processRefund whose findUnique returns no row, or a row of status
\* REFUNDED, fails at that step; from then on the request takes no further
\* step, has made no gateway refund or reversal, and no ledger row is
\* written by it or points at a row of it.
C13_RefundRejected ==
  [][ \A r \in Reqs :
        /\ ( /\ req[r].pc = "idle" /\ req'[r].kind = "refund"
             /\ \/ req'[r].transactionId \notin TxnIds
                \/ ledger[req'[r].transactionId].status = "REFUNDED" )
           => /\ req'[r].pc = "failed"
              /\ req'[r].error \in RefundPreconditionErrors
        /\ req[r].error \in RefundPreconditionErrors
           => /\ req'[r] = req[r]
              /\ refundsIssued'[r] = 0 /\ reversals'[r] = 0
              /\ \A i \in 1..Len(ledger') :
                   /\ ledger'[i].req # r
                   /\ ledger'[i].refundId # 0
                      => ledger'[ledger'[i].refundId].req # r ]_vars

C13_Witness ==
  \E r1 \in RefundReqs, r2 \in RefundReqs :
    /\ req[r1].pc = "done"
    /\ req[r2].transactionId = req[r1].transactionId
    /\ req[r2].error = "already_refunded" /\ req[r2].pc = "failed"
    /\ refundsIssued[r2] = 0 /\ RowsOf(r2) = {}

\* the calculator has returned
CalcDone == calc.splits # <<>>

\* C14: for every amount a > 0, down to 0.01, calculatePlatformCommission
\* returns 0 < platformCommission <= 0.5 * a.
C14_CommissionBounds ==
  CalcDone
  => \A k \in 1..3 :
       /\ calc.splits[k].platformCommission > 0
       /\ calc.splits[k].platformCommission <= calc.amounts[k]

C14_Witness ==
  /\ CalcDone
  /\ calc.amounts[3] = 1
  /\ calc.splits[3].platformCommission = 1

\* C15: for every amount a > 0, platformCommission(a) + educatorEarnings(a)
\* <= a.
C15_SplitWithinAmount ==
  CalcDone
  => \A k \in 1..3 :
       calc.splits[k].platformCommission + calc.splits[k].educatorEarnings
         <= 2 * calc.amounts[k]

\* C16: for every amount a > 0, with netAmount = a - (0.30 + 0.029 * a),
\* platformCommission + educatorEarnings <= netAmount <= a.
C16_SplitWithinNet ==
  CalcDone
  => \A k \in 1..3 :
       /\ 500 * (calc.splits[k].platformCommission
                 + calc.splits[k].educatorEarnings)
            <= netAmountNum(calc.amounts[k])
       /\ netAmountNum(calc.amounts[k]) <= 1000 * calc.amounts[k]

\* C17: for a1 >= 500, a2 in [200, 500) and 0 < a3 < 200 the effective
\* commission rate platformCommission(a) / a satisfies
\* rate(a1) <= rate(a2) <= rate(a3).
C17_TierMonotonic ==
  CalcDone
  => /\ calc.splits[1].platformCommission * calc.amounts[2]
          <= calc.splits[2].platformCommission * calc.amounts[1]
     /\ calc.splits[2].platformCommission * calc.amounts[3]
          <= calc.splits[3].platformCommission * calc.amounts[2]

\* the step of request r that commits its Transaction and Invoice, for a
\* payment of 99.00 whose charge reported succeeded
CommitsScenarioA(r) ==
  /\ req[r].pc = "persist" /\ req'[r].committed
  /\ req[r].amount = 9900 /\ req[r].chargeStatus = "succeeded"

NoTimerOf(r) == \A k \in 1..Len(timers) : timers[k].req # r

\* C19: every payment and every refund that has committed has, once its
\* callbacks have run, invalidated the cached statistics keys (stats:*) and
\* the cached report keys (report:*).
C19_CommitInvalidatesCaches ==
  \A r \in Reqs :
    (req[r].committed /\ req[r].pc \in {"done", "failed"} /\ NoTimerOf(r))
    => /\ r \in invalidated
       /\ {"stats:*", "report:*"} \subseteq invalidateTransactionCaches

\* C20: an aggregate call made after a payment or refund has committed
\* returns a result recomputed from the ledger.
C20_RecomputesAfterCommit ==
  \A s \in Stats :
    (stat[s].pc # "idle" /\ stat[s].commitsBefore # {})
    => stat[s].pc = "done" /\ stat[s].recomputed

\* C21: every aggregate call returns a result, and a call that follows
\* another with no ledger commit in between is served from the cache, with
\* no aggregation over the ledger.
C21_SecondCallServedFromCache ==
  /\ \A s \in Stats : stat[s].pc # "idle" => stat[s].pc = "done"
  /\ \A s \in Stats \ {1} :
       (stat[s].pc # "idle"
        /\ stat[s - 1].commitsBefore = stat[s].commitsBefore)
       => ~stat[s].recomputed

\* C22: a payment rejected as already enrolled and a refund rejected as
\* already refunded are answered with 409; a payment rejected because the
\* educator has no payout account is answered with 400.
C22_TaxonomyStatus ==
  \A r \in Reqs :
    /\ req[r].error \in {"already_enrolled_err", "already_refunded"}
       => ControllerStatus(RejectionStatusCode(build, req[r].error)) = 409
    /\ req[r].error = "edu_not_found_err"
       => ControllerStatus(RejectionStatusCode(build, req[r].error)) = 400

\* C26: the step that commits a payment writes a row of status COMPLETED
\* exactly when the charge reported succeeded and of status PENDING
\* otherwise, and the invoice written with it has status PAID in both cases.
C26_PersistStatus ==
  [][ \A r \in Reqs :
        (req[r].pc = "persist" /\ req'[r].committed)
        => LET n == ledger'[Len(ledger')]
           IN /\ Len(ledger') = Len(ledger) + 1 /\ n.req = r
              /\ n.status = "COMPLETED" <=> req[r].chargeStatus = "succeeded"
              /\ n.status = "PENDING" <=> req[r].chargeStatus # "succeeded"
              /\ \E inv \in invoices' \ invoices :
                   /\ inv.transactionId = Len(ledger')
                   /\ inv.status = "PAID" ]_vars

C26_Witness ==
  \E r1 \in PaymentReqs, r2 \in PaymentReqs :
    /\ req[r1].committed /\ req[r1].chargeStatus = "succeeded"
    /\ req[r2].committed /\ req[r2].chargeStatus = "requires_action"
    /\ \E i \in RowsOf(r2) :
         /\ ledger[i].status = "PENDING"
         /\ \E inv \in InvoicesOf(r2) : /\ inv.transactionId = i
                                        /\ inv.status = "PAID"

\* C27: processRefund calls the gateway's transfer reversal only for a
\* charge that had a transfer to the educator, and the amount of the call
\* is the original's full educatorEarnings whatever the refund ratio.
C27_ReversalOnlyWithTransfer ==
  \A r \in RefundReqs :
    req[r].reversalCalled =>
      /\ req[r].hasTransfer
      /\ req[r].reversalAmount = ledger[req[r].transactionId].educatorEarnings

\* C28: two processPayment requests for different (user, course) pairs never
\* make each other fail: when both were charged and one has committed, the
\* commit of the other is not refused because of the first, even when both
\* persist steps read the same clock value.
C28_DifferentPairsIndependent ==
  \A r1, r2 \in PaymentReqs :
    ( /\ r1 # r2
      /\ <<req[r1].userId, req[r1].courseId>> # <<req[r2].userId, req[r2].courseId>>
      /\ req[r1].chargeReturned /\ req[r2].chargeReturned
      /\ req[r2].committed )
    => ~req[r1].collided

\* C29: every REFUND row has 0 < amount <= the amount of its original, so
\* the magnitudes of its platformCommission and educatorEarnings (over
\* ratioDen) do not exceed the original's.
C29_RefundWithinOriginal ==
  \A i \in TxnIds :
    ledger[i].type = "REFUND" =>
      LET o == ledger[ledger[i].originalTransactionId]
      IN /\ 0 < ledger[i].amount
         /\ ledger[i].amount <= o.amount
         /\ -ledger[i].platformCommission <= o.platformCommission * o.amount
         /\ -ledger[i].educatorEarnings <= o.educatorEarnings * o.amount

\* C30: processRefund issues a gateway refund or creates a REFUND row only
\* for an original of type PAYMENT that was COMPLETED: never for a FAILED
\* or PENDING transaction, nor for one of type REFUND.
C30_RefundsOnlyCompletedPayments ==
  \A r \in RefundReqs :
    (refundsIssued[r] > 0 \/ req[r].refundTxn # 0) =>
      /\ ledger[req[r].transactionId].type = "PAYMENT"
      /\ ledger[req[r].transactionId].status \notin {"PENDING", "FAILED"}

\* C23: a request to a protected endpoint that carries no Bearer token is
\* answered with 401 and the endpoint's handler is never invoked.
C23_MissingTokenIs401 ==
  (http.pc = "answered" /\ http.header = "missing") =>
    (http.status = 401 /\ ~http.handlerInvoked)

\* C24: a validated user whose role is not ADMIN who requests
\* /transaction-volumes is answered with 403 and the statistics service is
\* never invoked for the request.
C24_NonAdminIs403 ==
  ( /\ http.pc = "answered" /\ http.endpoint = "transaction-volumes"
    /\ http.user /\ http.role # "ADMIN" ) =>
    (http.status = 403 /\ ~http.serviceInvoked)

\* C25: a validated non-ADMIN user who requests the payment analytics of
\* another id is answered with 403 and the analytics service is not invoked;
\* for their own id the service is invoked with that id and the answer is 200.
C25_OwnAnalyticsOnly ==
  ( /\ http.pc = "answered" /\ http.endpoint = "payment-analytics"
    /\ http.user /\ http.role # "ADMIN" ) =>
    IF http.id # http.educatorId
    THEN http.status = 403 /\ ~http.serviceInvoked
    ELSE /\ http.serviceInvoked /\ http.serviceArg = http.educatorId
         /\ http.status = 200

====
